---- MODULE Spec2Model ----
(***************************************************************************)
(* Model of error-catch-notifier (src/src/error-catch-notifier.js).        *)
(*                                                                         *)
(* The module-level state of the library is three variables: _isEnabled,   *)
(* _isLoggingEnabled and _errorSubscribers.  Every exported function is an *)
(* operator over a record st = [en, log, subs, out, calls, caught, tcalls] *)
(* (the three module variables, then what the running operation has done   *)
(* so far: the console lines written, the subscriber invocations made, the *)
(* subscriber exceptions caught and the target invocations made), so that  *)
(* an operation that is re-entered from user code (a subscriber calling    *)
(* initErrorCatchNotifier, a target toggling the catching flag) is         *)
(* computed on the live state, the way the JavaScript runs it.  One action *)
(* per exported operation then applies the operator to the variables.      *)
(***************************************************************************)
EXTENDS Naturals, Sequences, FiniteSets

VARIABLES _isEnabled, _isLoggingEnabled, _errorSubscribers,
          wrapped, held, lastOp, outcome, calls, caught, tcalls, console

vars == <<_isEnabled, _isLoggingEnabled, _errorSubscribers,
          wrapped, held, lastOp, outcome, calls, caught, tcalls, console>>

(***************************************************************************)
(* Bounds.                                                                 *)
(***************************************************************************)
\* longest candidate array handed to initErrorCatchNotifier
MaxLen == 2

(***************************************************************************)
(* Small helpers on sequences.                                             *)
(***************************************************************************)
SeqsUpTo(S, n) == UNION {[1..k -> S] : k \in 0..n}

\* the positions of s that hold the token t
Positions(s, t) == {i \in 1..Len(s) : s[i] = t}

Min(S) == CHOOSE m \in S : \A k \in S : m <= k

Max(S) == CHOOSE m \in S : \A k \in S : m >= k

\* F applied to the value of v, v being evaluated once: a const declaration
\* whose value the code after it reads several times
Const(v, F(_)) == CHOOSE y \in {F(x) : x \in {v}} : TRUE

(***************************************************************************)
(* Candidate values handed to the library as error subscribers.  A         *)
(* candidate is a JavaScript value; the model keeps of it what the library *)
(* reads: its truthiness and its constructor / call / apply properties     *)
(* (isFunction), the text toString() returns, cut into lexical tokens      *)
(* (getArgumentNames), its name property (log lines) and what happens when *)
(* it is invoked (notifyErrorSubscribers).  `callable` and `params` are    *)
(* the facts of the value itself: whether typeof gives "function", and the *)
(* parameter names it declares.                                            *)
(*                                                                         *)
(*   good      function errorSubscriber(error) {}                         *)
(*   thrower   function throwingSubscriber(error, options) { throw .. }   *)
(*   reiniter  function reinit(error) {                                   *)
(*                 initErrorCatchNotifier([good, reinit], true, false) }   *)
(*   bad       function badErrorSubscriber() {}                           *)
(*   arrow     (error) => {}                                              *)
(*   nested    (e) => { return function (error) {}; }                     *)
(*   obj       {}                                                         *)
(*   duck      { call: 1, apply: 1,                                       *)
(*               toString() { return 'function f(error) {}'; } }          *)
(***************************************************************************)
WS == " "

Cand ==
  [ good |->
      [truthy |-> TRUE, hasConstructor |-> TRUE, hasCall |-> TRUE, hasApply |-> TRUE,
       callable |-> TRUE, params |-> <<"error">>, name |-> "errorSubscriber",
       text |-> <<"function", WS, "errorSubscriber", "(", "error", ")", WS, "{", "}">>,
       body |-> "return"],
    thrower |->
      [truthy |-> TRUE, hasConstructor |-> TRUE, hasCall |-> TRUE, hasApply |-> TRUE,
       callable |-> TRUE, params |-> <<"error", "options">>, name |-> "throwingSubscriber",
       text |-> <<"function", WS, "throwingSubscriber", "(", "error", ",", WS, "options", ")",
                  WS, "{", WS, "throw", WS, "options", ";", WS, "}">>,
       body |-> "throw"],
    reiniter |->
      [truthy |-> TRUE, hasConstructor |-> TRUE, hasCall |-> TRUE, hasApply |-> TRUE,
       callable |-> TRUE, params |-> <<"error">>, name |-> "reinit",
       text |-> <<"function", WS, "reinit", "(", "error", ")", WS, "{", WS,
                  "initErrorCatchNotifier", "(", "[good, reinit], true, false", ")", ";", WS, "}">>,
       body |-> "reinit"],
    bad |->
      [truthy |-> TRUE, hasConstructor |-> TRUE, hasCall |-> TRUE, hasApply |-> TRUE,
       callable |-> TRUE, params |-> <<>>, name |-> "badErrorSubscriber",
       text |-> <<"function", WS, "badErrorSubscriber", "(", ")", WS, "{", "}">>,
       body |-> "return"],
    arrow |->
      [truthy |-> TRUE, hasConstructor |-> TRUE, hasCall |-> TRUE, hasApply |-> TRUE,
       callable |-> TRUE, params |-> <<"error">>, name |-> "arrowSubscriber",
       text |-> <<"(", "error", ")", WS, "=>", WS, "{", "}">>,
       body |-> "return"],
    nested |->
      [truthy |-> TRUE, hasConstructor |-> TRUE, hasCall |-> TRUE, hasApply |-> TRUE,
       callable |-> TRUE, params |-> <<"e">>, name |-> "nestedSubscriber",
       text |-> <<"(", "e", ")", WS, "=>", WS, "{", WS, "return", WS,
                  "function", WS, "(", "error", ")", WS, "{", "}", ";", WS, "}">>,
       body |-> "return"],
    obj |->
      [truthy |-> TRUE, hasConstructor |-> TRUE, hasCall |-> FALSE, hasApply |-> FALSE,
       callable |-> FALSE, params |-> <<>>, name |-> "undefined",
       text |-> <<"[object Object]">>,
       body |-> "notCallable"],
    duck |->
      [truthy |-> TRUE, hasConstructor |-> TRUE, hasCall |-> TRUE, hasApply |-> TRUE,
       callable |-> FALSE, params |-> <<>>, name |-> "undefined",
       text |-> <<"function", WS, "f", "(", "error", ")", WS, "{", "}">>,
       body |-> "notCallable"] ]

Candidates == DOMAIN Cand

\* the arguments the subscriber `reiniter` passes to initErrorCatchNotifier
ReinitArg == [kind |-> "array", items |-> <<"good", "reiniter">>]

ReinitEnabled == TRUE

ReinitLogging == FALSE

\* the values handed to initErrorCatchNotifier as errorSubscriberFunctions:
\* arrays of candidates, undefined (the default applies) and a plain object
ArgsOver(S) ==
  {[kind |-> "array", items |-> s] : s \in SeqsUpTo(S, MaxLen)}
    \cup {[kind |-> "undefined", items |-> <<>>], [kind |-> "object", items |-> <<>>]}

\* the candidates an application that only configures the library passes
ConfigCandidates == {"good", "bad", "arrow", "obj", "nested"}

\* the candidates an application that reports errors by hand passes
NotifyCandidates == {"good", "thrower", "reiniter", "duck"}

\* the candidates an application that calls a wrapped function passes
WrapCandidates == {"good", "thrower"}

\* the candidates an application that uses every exported function passes
AllCandidates == {"thrower", "reiniter", "bad"}

\* of these, the candidates that application hands to buildSubscriberList itself
AllBuildCandidates == {"thrower", "bad"}

(***************************************************************************)
(* Console lines.                                                          *)
(***************************************************************************)
Line(level, msg, detail) == [level |-> level, msg |-> msg, detail |-> detail]

IndexName(i) == IF i = 0 THEN "0" ELSE IF i = 1 THEN "1" ELSE IF i = 2 THEN "2" ELSE "3+"

(***************************************************************************)
(* getArgumentNames: the regular expression of line 38 (the word function, *)
(* one white space, as few characters of the line as possible, an opening  *)
(* parenthesis, the captured run without closing parenthesis, a closing    *)
(* parenthesis) on the tokens of toString(); then the split on commas, the *)
(* removal of one block comment, the trim and the removal of empty names.  *)
(***************************************************************************)
\* the closing parentheses after position p
Closers(text, p) == {q \in (p + 1)..Len(text) : text[q] = ")"}

\* the opening parentheses the expression can reach from the token "function"
\* at s: the lazy part stays on one line, and a closing parenthesis follows
Openers(text, s) ==
  {p \in (s + 2)..Len(text) :
     /\ text[p] = "("
     /\ \A k \in (s + 2)..(p - 1) : text[k] # "\n"
     /\ Closers(text, p) # {}}

\* the positions where a match of the regular expression starts
RegexMatches(text) ==
  {s \in 1..Len(text) :
     /\ text[s] = "function"
     /\ s + 1 <= Len(text)
     /\ text[s + 1] \in {WS, "\n"}
     /\ Openers(text, s) # {}}

\* the capture group of the leftmost match, its lazy part as short as possible
RegexCapture(text) ==
  LET s == Min(RegexMatches(text))
      p == Min(Openers(text, s))
      q == Min(Closers(text, p))
  IN  SubSeq(text, p + 1, q - 1)

RECURSIVE SplitOn(_, _)
\* String.prototype.split: the pieces of toks between the separators
SplitOn(toks, sep) ==
  IF Positions(toks, sep) = {} THEN <<toks>>
  ELSE LET c == Min(Positions(toks, sep))
       IN  <<SubSeq(toks, 1, c - 1)>> \o SplitOn(SubSeq(toks, c + 1, Len(toks)), sep)

\* the replace of line 46: from the first comment opener to the last closer
\* after it
StripComment(toks) ==
  LET opens  == Positions(toks, "/*")
      o      == Min(opens)
      closes == {c \in Positions(toks, "*/") : c > o}
  IN  IF opens = {} \/ closes = {} THEN toks
      ELSE SubSeq(toks, 1, o - 1) \o SubSeq(toks, Max(closes) + 1, Len(toks))

\* String.prototype.trim
Trim(toks) ==
  LET keep == {i \in 1..Len(toks) : toks[i] \notin {WS, "\n"}}
  IN  IF keep = {} THEN <<>> ELSE SubSeq(toks, Min(keep), Max(keep))

getArgumentNames(c) ==
  LET text == Cand[c].text
  IN  IF RegexMatches(text) = {} THEN <<>>
      ELSE LET args  == SplitOn(RegexCapture(text), ",")
               names == [i \in 1..Len(args) |-> Trim(StripComment(args[i]))]
           IN  SelectSeq(names, LAMBDA n : n # <<>>)

isFunction(c) ==
  Cand[c].truthy /\ Cand[c].hasConstructor /\ Cand[c].hasCall /\ Cand[c].hasApply

(***************************************************************************)
(* buildSubscriberList.                                                    *)
(***************************************************************************)
\* line 75: the argument names of each candidate
subscriberFunctionArgumentNames == [c \in Candidates |-> getArgumentNames(c)]

\* the filter callback: whether the candidate is kept
errorSubscriberFunctionsFilter(c) ==
  /\ isFunction(c)
  /\ subscriberFunctionArgumentNames[c] # <<>>
  /\ subscriberFunctionArgumentNames[c][1] = <<"error">>

\* the filter callback warning whatever the logging flag is
FilterWarningsAlways(c, index, logging) ==
  IF ~isFunction(c)
    THEN <<Line("warn", "Skipping error subscriber: <candidate> at errorSubscribers index", IndexName(index)),
           Line("warn", "Subscriber is not a function", "")>>
  ELSE IF ~errorSubscriberFunctionsFilter(c)
    THEN <<Line("warn", "Skipping error subscriber: <name>", Cand[c].name),
           Line("warn", "First argument of subscriber function must be named error", "")>>
  ELSE <<>>

\* the warnings the filter callback writes for the candidate at index
FilterWarnings(c, index, logging) ==
  IF ~logging THEN <<>>
  ELSE IF ~isFunction(c)
    THEN <<Line("warn", "Skipping error subscriber: <candidate> at errorSubscribers index", IndexName(index)),
           Line("warn", "Subscriber is not a function", "")>>
  ELSE IF ~errorSubscriberFunctionsFilter(c)
    THEN <<Line("warn", "Skipping error subscriber: <name>", Cand[c].name),
           Line("warn", "First argument of subscriber function must be named error", "")>>
  ELSE <<>>

RECURSIVE KeptFrom(_, _)
\* Array.prototype.filter from position i on: the candidates kept
KeptFrom(items, i) ==
  IF i > Len(items) THEN <<>>
  ELSE (IF errorSubscriberFunctionsFilter(items[i]) THEN <<items[i]>> ELSE <<>>)
         \o KeptFrom(items, i + 1)

RECURSIVE WarningsFrom(_, _, _)
\* Array.prototype.filter from position i on: the warnings written
WarningsFrom(items, i, logging) ==
  IF i > Len(items) THEN <<>>
  ELSE FilterWarnings(items[i], i - 1, logging) \o WarningsFrom(items, i + 1, logging)

\* the list built from an array; the console lines are appended to st.out
buildSubscriberList(st, items) ==
  [list |-> KeptFrom(items, 1),
   st   |-> [st EXCEPT !.out = @ \o WarningsFrom(items, 1, st.log)]]

\* a call of the exported buildSubscriberList on any value: undefined takes
\* the default of line 62, and a value without a filter method throws
buildSubscriberListCall(st, arg) ==
  IF arg.kind = "object" THEN [list |-> <<>>, st |-> st, threw |-> "TypeError"]
  ELSE Const(buildSubscriberList(st, arg.items), LAMBDA b :
         [list |-> b.list, st |-> b.st, threw |-> ""])

(***************************************************************************)
(* The setters.                                                            *)
(***************************************************************************)
\* enableLogging that flips the logging flag
enableLoggingFlips(st) == [st EXCEPT !.log = ~@]

enableLogging(st) == [st EXCEPT !.log = TRUE]

disableLogging(st) == [st EXCEPT !.log = FALSE]

\* enableErrorCatching without the test of the subscriber list
enableErrorCatchingUnchecked(st) == [st EXCEPT !.en = TRUE]

\* enableErrorCatching that warns whatever the logging flag is
enableErrorCatchingWarnsAlways(st) ==
  IF Len(st.subs) = 0
    THEN [st EXCEPT
            !.out = @ \o <<Line("warn", "No valid error subscribers provided. Use init to pass valid error subscribers", "")>>,
            !.en = FALSE]
    ELSE [st EXCEPT !.en = TRUE]

enableErrorCatching(st) ==
  IF Len(st.subs) = 0
    THEN [st EXCEPT
            !.out = IF st.log
                      THEN @ \o <<Line("warn", "No valid error subscribers provided. Use init to pass valid error subscribers", "")>>
                      ELSE @,
            !.en = FALSE]
    ELSE [st EXCEPT !.en = TRUE]

\* disableErrorCatching that empties the subscriber list too
disableErrorCatchingForgets(st) == [st EXCEPT !.en = FALSE, !.subs = <<>>]

disableErrorCatching(st) == [st EXCEPT !.en = FALSE]

(***************************************************************************)
(* initErrorCatchNotifier.  The result carries `threw`: the exception that *)
(* leaves the call ("" when it returns).                                   *)
(***************************************************************************)
\* initErrorCatchNotifier that adds the built list to the list it finds
initErrorCatchNotifierAppends(st, arg, enabled, loggingEnabled) ==
  Const(IF loggingEnabled THEN enableLogging(st) ELSE disableLogging(st), LAMBDA s1 :
    IF arg.kind = "object" /\ s1.log
      THEN [st    |-> [s1 EXCEPT !.out = @ \o <<Line("error", "errorSubscriberFunctions must be an array of functions", "")>>],
            threw |-> ""]
    ELSE IF arg.kind = "object"
      THEN [st |-> s1, threw |-> "TypeError"]
    ELSE Const(buildSubscriberList(s1, arg.items), LAMBDA b :
           Const([b.st EXCEPT !.subs = @ \o b.list], LAMBDA s2 :
             [st    |-> IF enabled THEN enableErrorCatching(s2) ELSE disableErrorCatching(s2),
              threw |-> ""])))

\* initErrorCatchNotifier that, on a value that is no array, goes on with an
\* empty list once it has reported the error
initErrorCatchNotifierGoesOn(st, arg, enabled, loggingEnabled) ==
  Const(IF loggingEnabled THEN enableLogging(st) ELSE disableLogging(st), LAMBDA s1 :
    IF arg.kind = "object" /\ ~s1.log
      THEN [st |-> s1, threw |-> "TypeError"]
    ELSE Const(IF arg.kind = "object"
                 THEN [s1 EXCEPT !.out = @ \o <<Line("error", "errorSubscriberFunctions must be an array of functions", "")>>]
                 ELSE s1, LAMBDA s1b :
           Const(buildSubscriberList(s1b, arg.items), LAMBDA b :
             Const([b.st EXCEPT !.subs = b.list], LAMBDA s2 :
               [st    |-> IF enabled THEN enableErrorCatching(s2) ELSE disableErrorCatching(s2),
                threw |-> ""]))))

\* initErrorCatchNotifier that applies loggingEnabled as its last step
initErrorCatchNotifierLoggingLast(st, arg, enabled, loggingEnabled) ==
  Const(IF arg.kind = "object" /\ st.log
          THEN [st    |-> [st EXCEPT !.out = @ \o <<Line("error", "errorSubscriberFunctions must be an array of functions", "")>>],
                threw |-> ""]
        ELSE IF arg.kind = "object"
          THEN [st |-> st, threw |-> "TypeError"]
        ELSE Const(buildSubscriberList(st, arg.items), LAMBDA b :
               Const([b.st EXCEPT !.subs = b.list], LAMBDA s2 :
                 [st    |-> IF enabled THEN enableErrorCatching(s2) ELSE disableErrorCatching(s2),
                  threw |-> ""])), LAMBDA r :
    [st    |-> IF loggingEnabled THEN enableLogging(r.st) ELSE disableLogging(r.st),
     threw |-> r.threw])

initErrorCatchNotifier(st, arg, enabled, loggingEnabled) ==
  Const(IF loggingEnabled THEN enableLogging(st) ELSE disableLogging(st), LAMBDA s1 :
    IF arg.kind = "object" /\ s1.log
      THEN [st    |-> [s1 EXCEPT !.out = @ \o <<Line("error", "errorSubscriberFunctions must be an array of functions", "")>>],
            threw |-> ""]
    ELSE IF arg.kind = "object"
      \* a plain object has no filter method: buildSubscriberList throws
      THEN [st |-> s1, threw |-> "TypeError"]
    ELSE Const(buildSubscriberList(s1, arg.items), LAMBDA b :
           Const([b.st EXCEPT !.subs = b.list], LAMBDA s2 :
             [st    |-> IF enabled THEN enableErrorCatching(s2) ELSE disableErrorCatching(s2),
              threw |-> ""])))

(***************************************************************************)
(* makeErrorSubscriberFailback and notifyErrorSubscribers.                 *)
(***************************************************************************)
\* the closure returned for a subscriber name; id tells the closures made
\* during one operation apart (the n-th closure made has id n)
\* madeWhen records the logging flag at the time the closure is made
makeErrorSubscriberFailback(st, errorSubscriberName, n) ==
  [name |-> errorSubscriberName, id |-> n, madeWhen |-> st.log]

\* no failback kept by a subscriber
NoFailback == [name |-> "none", id |-> 0, madeWhen |-> FALSE]

\* the values a failback is invoked with, and what the failback reads of
\* them: whether the value is given and whether it is truthy
\*   none     undefined
\*   zero     0
\*   text     'myError', 'mySuccess'
JsValue ==
  [ none |-> [given |-> FALSE, truthy |-> FALSE],
    zero |-> [given |-> TRUE,  truthy |-> FALSE],
    text |-> [given |-> TRUE,  truthy |-> TRUE] ]

JsValues == DOMAIN JsValue

\* the names failbacks are made for
FailbackNames == {"errorSubscriber", "errorSubscriber10"}

\* the closure deciding on the logging flag as it was when the closure was made
errorSubscriberFailbackOfMadeWhen(st, failback, error, data) ==
  IF ~failback.madeWhen THEN st
  ELSE [st EXCEPT !.out =
          @ \o (IF JsValue[error].truthy
                  THEN <<Line("error", "Error subscriber <name> failed with error", failback.name),
                         Line("error", "<error>", error)>>
                  ELSE <<>>)
            \o (IF JsValue[data].truthy
                  THEN <<Line("log", "Error subscriber <name> succeeded with", failback.name),
                         Line("log", "<data>", data)>>
                  ELSE <<>>)]

\* the closure of lines 163-177 invoked with (error, data)
errorSubscriberFailback(st, failback, error, data) ==
  IF ~st.log THEN st
  ELSE [st EXCEPT !.out =
          @ \o (IF JsValue[error].truthy
                  THEN <<Line("error", "Error subscriber <name> failed with error", failback.name),
                         Line("error", "<error>", error)>>
                  ELSE <<>>)
            \o (IF JsValue[data].truthy
                  THEN <<Line("log", "Error subscriber <name> succeeded with", failback.name),
                         Line("log", "<data>", data)>>
                  ELSE <<>>)]

\* the call errorSubscriber(error, options, failback) of line 189, the
\* subscriber being the candidate c found at index i
InvokeSubscriber(st, c, i, error, options) ==
  LET fb    == makeErrorSubscriberFailback(st, Cand[c].name, Len(st.calls) + Len(st.caught) + 1)
      entry == [sub |-> c, index |-> i, error |-> error, options |-> options, failback |-> fb]
  IN  Const([st EXCEPT !.calls = Append(@, entry)], LAMBDA s1 :
        CASE Cand[c].body = "return" -> [st |-> s1, threw |-> ""]
          [] Cand[c].body = "throw"  -> [st |-> s1, threw |-> "SubscriberError"]
          [] Cand[c].body = "reinit" ->
               [st    |-> initErrorCatchNotifier(s1, ReinitArg, ReinitEnabled, ReinitLogging).st,
                threw |-> ""]
          \* calling a value that is not a function throws before any call is made
          [] OTHER -> [st |-> st, threw |-> "TypeError"])

RECURSIVE NotifyFromSkipping(_, _, _, _)
\* the for loop with a catch block that skips the failing subscriber and goes
\* on, whatever the logging flag is
NotifyFromSkipping(st, error, options, i) ==
  IF ~(i < Len(st.subs)) THEN st
  ELSE LET errorSubscriber == st.subs[i + 1]
       IN  Const(InvokeSubscriber(st, errorSubscriber, i, error, options), LAMBDA r :
             LET c == [index |-> i, sub |-> errorSubscriber, catchError |-> r.threw,
                       logged |-> r.st.log]
             IN  IF r.threw = "" THEN NotifyFromSkipping(r.st, error, options, i + 1)
                 ELSE NotifyFromSkipping(
                        [r.st EXCEPT
                           !.caught = Append(@, c),
                           !.out = IF r.st.log
                                     THEN @ \o <<Line("error", "Skipping error subscriber: <name>", Cand[errorSubscriber].name),
                                                  Line("error", "<catchError>", r.threw)>>
                                     ELSE @],
                        error, options, i + 1))

RECURSIVE NotifyFrom(_, _, _, _)
\* the for loop of notifyErrorSubscribers from index i on
NotifyFrom(st, error, options, i) ==
  IF ~(i < Len(st.subs)) THEN st
  ELSE LET errorSubscriber == st.subs[i + 1]
       IN  Const(InvokeSubscriber(st, errorSubscriber, i, error, options), LAMBDA r :
             LET c == [index |-> i, sub |-> errorSubscriber, catchError |-> r.threw,
                       logged |-> r.st.log]
             IN  IF r.threw = "" THEN NotifyFrom(r.st, error, options, i + 1)
                 ELSE IF ~r.st.log THEN [r.st EXCEPT !.caught = Append(@, c)]
                 ELSE NotifyFrom(
                        [r.st EXCEPT
                           !.caught = Append(@, c),
                           !.out = @ \o <<Line("error", "Skipping error subscriber: <name>", Cand[errorSubscriber].name),
                                          Line("error", "<catchError>", r.threw)>>],
                        error, options, i + 1))

RECURSIVE NotifyCopyFrom(_, _, _, _, _)
\* the for loop run over a copy of the subscriber list taken when the call
\* starts
NotifyCopyFrom(st, copy, error, options, i) ==
  IF ~(i < Len(copy)) THEN st
  ELSE LET errorSubscriber == copy[i + 1]
       IN  Const(InvokeSubscriber(st, errorSubscriber, i, error, options), LAMBDA r :
             LET c == [index |-> i, sub |-> errorSubscriber, catchError |-> r.threw,
                       logged |-> r.st.log]
             IN  IF r.threw = "" THEN NotifyCopyFrom(r.st, copy, error, options, i + 1)
                 ELSE IF ~r.st.log THEN [r.st EXCEPT !.caught = Append(@, c)]
                 ELSE NotifyCopyFrom(
                        [r.st EXCEPT
                           !.caught = Append(@, c),
                           !.out = @ \o <<Line("error", "Skipping error subscriber: <name>", Cand[errorSubscriber].name),
                                          Line("error", "<catchError>", r.threw)>>],
                        copy, error, options, i + 1))

\* notifyErrorSubscribers that notifies the subscribers of the list as it
\* is when the call starts
notifyErrorSubscribersOfCopy(st, error, options) ==
  NotifyCopyFrom(st, st.subs, error, options, 0)

\* notifyErrorSubscribers with a loop that starts at index 1
notifyErrorSubscribersFromOne(st, error, options) == NotifyFrom(st, error, options, 1)

notifyErrorSubscribers(st, error, options) == NotifyFrom(st, error, options, 0)

(***************************************************************************)
(* wrap.  Target functions:                                                *)
(*   echo               function (a) { return [this, a]; }                 *)
(*   fails              function (a) { throw a; }                          *)
(*   disablesThenFails  function (a) { disableErrorCatching(); throw a; }  *)
(*   enablesThenFails   function (a) { enableErrorCatching(); throw a; }   *)
(***************************************************************************)
Targets == {"echo", "fails", "disablesThenFails", "enablesThenFails"}

Receivers == {"thisA", "thisB"}

\* the argument of a call; the failing targets throw it
Arguments == {"E1", "E2"}

OptionValues == {"optA", "optB"}

Undefined == <<"undefined">>

NoWrap == [target |-> "none", options |-> "none", wrappedWhen |-> FALSE]

\* how a call of the target with this receiver and argument ends
TargetResult(target, receiver, args) ==
  IF target = "echo" THEN [kind |-> "return", value |-> <<receiver, args>>]
  ELSE [kind |-> "throw", value |-> <<args>>]

\* targetFunction.apply(this, args): the result and what the target did to
\* the library meanwhile
TargetApply(st, target, receiver, args) ==
  LET s1 == [st EXCEPT !.tcalls = Append(@, [target |-> target, receiver |-> receiver, args |-> args])]
      r  == TargetResult(target, receiver, args)
  IN  [st    |-> CASE target = "disablesThenFails" -> disableErrorCatching(s1)
                   [] target = "enablesThenFails"  -> enableErrorCatching(s1)
                   [] OTHER -> s1,
       kind  |-> r.kind,
       value |-> r.value]

\* the closure wrap returns; wrappedWhen records the catching flag at wrap time
wrap(st, targetFunction, options) ==
  [target |-> targetFunction, options |-> options, wrappedWhen |-> st.en]

\* wrappedFunction that guards the call whatever the catching flag is
wrappedFunctionAlwaysCatches(st, w, receiver, args) ==
  Const(TargetApply(st, w.target, receiver, args), LAMBDA r :
    IF r.kind = "throw"
      THEN [st    |-> notifyErrorSubscribers(r.st, r.value[1], w.options),
            kind  |-> "return",
            value |-> Undefined]
      ELSE [st |-> r.st, kind |-> "return", value |-> r.value])

\* wrappedFunction that throws the error again once the subscribers have it
wrappedFunctionRethrows(st, w, receiver, args) ==
  IF ~st.en THEN TargetApply(st, w.target, receiver, args)
  ELSE Const(TargetApply(st, w.target, receiver, args), LAMBDA r :
         IF r.kind = "throw"
           THEN [st    |-> notifyErrorSubscribers(r.st, r.value[1], w.options),
                 kind  |-> "throw",
                 value |-> r.value]
           ELSE [st |-> r.st, kind |-> "return", value |-> r.value])

\* wrappedFunction that decides on the catching flag as it was at wrap time
wrappedFunctionSnapshot(st, w, receiver, args) ==
  IF ~w.wrappedWhen THEN TargetApply(st, w.target, receiver, args)
  ELSE Const(TargetApply(st, w.target, receiver, args), LAMBDA r :
         IF r.kind = "throw"
           THEN [st    |-> notifyErrorSubscribers(r.st, r.value[1], w.options),
                 kind  |-> "return",
                 value |-> Undefined]
           ELSE [st |-> r.st, kind |-> "return", value |-> r.value])

\* wrappedFunction that notifies the subscribers of what the target returns
wrappedFunctionNotifiesResult(st, w, receiver, args) ==
  IF ~st.en THEN TargetApply(st, w.target, receiver, args)
  ELSE Const(TargetApply(st, w.target, receiver, args), LAMBDA r :
         IF r.kind = "throw"
           THEN [st    |-> notifyErrorSubscribers(r.st, r.value[1], w.options),
                 kind  |-> "return",
                 value |-> Undefined]
           ELSE [st    |-> notifyErrorSubscribers(r.st, args, w.options),
                 kind  |-> "return",
                 value |-> r.value])

\* wrappedFunction that hands the argument of the call on as options
wrappedFunctionArgsAsOptions(st, w, receiver, args) ==
  IF ~st.en THEN TargetApply(st, w.target, receiver, args)
  ELSE Const(TargetApply(st, w.target, receiver, args), LAMBDA r :
         IF r.kind = "throw"
           THEN [st    |-> notifyErrorSubscribers(r.st, r.value[1], args),
                 kind  |-> "return",
                 value |-> Undefined]
           ELSE [st |-> r.st, kind |-> "return", value |-> r.value])

\* wrappedFunction that reads the catching flag when the target has thrown
wrappedFunctionDecidesLate(st, w, receiver, args) ==
  Const(TargetApply(st, w.target, receiver, args), LAMBDA r :
    IF r.kind = "throw" /\ r.st.en
      THEN [st    |-> notifyErrorSubscribers(r.st, r.value[1], w.options),
            kind  |-> "return",
            value |-> Undefined]
      ELSE r)

wrappedFunction(st, w, receiver, args) ==
  IF ~st.en THEN TargetApply(st, w.target, receiver, args)
  ELSE Const(TargetApply(st, w.target, receiver, args), LAMBDA r :
         IF r.kind = "throw"
           THEN [st    |-> notifyErrorSubscribers(r.st, r.value[1], w.options),
                 kind  |-> "return",
                 value |-> Undefined]
           ELSE [st |-> r.st, kind |-> "return", value |-> r.value])

(***************************************************************************)
(* The state machine: one action per exported operation.                   *)
(***************************************************************************)
\* the live state at the start of an operation
Cur ==
  [en |-> _isEnabled, log |-> _isLoggingEnabled, subs |-> _errorSubscribers,
   out |-> <<>>, calls |-> <<>>, caught |-> <<>>, tcalls |-> <<>>]

Op(name) ==
  [op |-> name, arg |-> [kind |-> "none", items |-> <<>>], enabled |-> FALSE,
   loggingEnabled |-> FALSE, error |-> "", options |-> "", receiver |-> "", args |-> "",
   name |-> "", data |-> ""]

Returned(v) == [kind |-> "return", value |-> v]

Threw(e) == [kind |-> "throw", value |-> <<e>>]

\* the state an operation leaves
Commit(st, op, result) ==
  /\ _isEnabled' = st.en
  /\ _isLoggingEnabled' = st.log
  /\ _errorSubscribers' = st.subs
  /\ console' = st.out
  /\ calls' = st.calls
  /\ caught' = st.caught
  /\ tcalls' = st.tcalls
  /\ lastOp' = op
  /\ outcome' = result

Init ==
  /\ _isEnabled = FALSE
  /\ _isLoggingEnabled = FALSE
  /\ _errorSubscribers = <<>>
  /\ wrapped = NoWrap
  /\ held = NoFailback
  /\ lastOp = Op("none")
  /\ outcome = Returned(Undefined)
  /\ calls = <<>>
  /\ caught = <<>>
  /\ tcalls = <<>>
  /\ console = <<>>

EnableLogging ==
  /\ \E st \in {enableLogging(Cur)} : Commit(st, Op("enableLogging"), Returned(Undefined))
  /\ UNCHANGED <<wrapped, held>>

DisableLogging ==
  /\ \E st \in {disableLogging(Cur)} : Commit(st, Op("disableLogging"), Returned(Undefined))
  /\ UNCHANGED <<wrapped, held>>

EnableErrorCatching ==
  /\ \E st \in {enableErrorCatching(Cur)} :
       Commit(st, Op("enableErrorCatching"), Returned(Undefined))
  /\ UNCHANGED <<wrapped, held>>

DisableErrorCatching ==
  /\ \E st \in {disableErrorCatching(Cur)} :
       Commit(st, Op("disableErrorCatching"), Returned(<<"true">>))
  /\ UNCHANGED <<wrapped, held>>

InitWith(argSet) ==
  \E arg \in argSet, enabled \in BOOLEAN, loggingEnabled \in BOOLEAN :
    \E r \in {initErrorCatchNotifier(Cur, arg, enabled, loggingEnabled)} :
        /\ Commit(r.st,
                  [Op("initErrorCatchNotifier") EXCEPT
                     !.arg = arg, !.enabled = enabled, !.loggingEnabled = loggingEnabled],
                  IF r.threw = "" THEN Returned(Undefined) ELSE Threw(r.threw))
        /\ UNCHANGED <<wrapped, held>>

InitErrorCatchNotifier == InitWith(ArgsOver(ConfigCandidates))

InitErrorCatchNotifierNotify == InitWith(ArgsOver(NotifyCandidates))

InitErrorCatchNotifierWrap == InitWith(ArgsOver(WrapCandidates))

InitErrorCatchNotifierAll == InitWith(ArgsOver(AllCandidates))

BuildWith(argSet) ==
  \E arg \in argSet :
    \E r \in {buildSubscriberListCall(Cur, arg)} :
        /\ Commit(r.st,
                  [Op("buildSubscriberList") EXCEPT !.arg = arg],
                  IF r.threw = "" THEN Returned(r.list) ELSE Threw(r.threw))
        /\ UNCHANGED <<wrapped, held>>

BuildSubscriberList == BuildWith(ArgsOver(Candidates))

BuildSubscriberListAll == BuildWith(ArgsOver(AllBuildCandidates))

ErrorSubscriberFailback ==
  \E errorSubscriberName \in FailbackNames, error \in JsValues, data \in JsValues :
    /\ \E st \in {errorSubscriberFailback(Cur, makeErrorSubscriberFailback(Cur, errorSubscriberName, 1),
                                            error, data)} :
         Commit(st,
                [Op("errorSubscriberFailback") EXCEPT
                   !.name = errorSubscriberName, !.error = error, !.data = data],
                Returned(Undefined))
    /\ UNCHANGED <<wrapped, held>>

NotifyErrorSubscribers ==
  \E error \in Arguments, options \in OptionValues :
    /\ \E st \in {notifyErrorSubscribers(Cur, error, options)} :
         Commit(st,
                [Op("notifyErrorSubscribers") EXCEPT !.error = error, !.options = options],
                Returned(Undefined))
    /\ UNCHANGED <<wrapped, held>>

\* notifyErrorSubscribers, one of the subscribers invoked keeping its failback
\* to report later
NotifyErrorSubscribersKeeping ==
  \E error \in Arguments, options \in OptionValues :
    \E st \in {notifyErrorSubscribers(Cur, error, options)} :
        /\ st.calls # <<>>
        /\ Commit(st,
                  [Op("notifyErrorSubscribers") EXCEPT !.error = error, !.options = options],
                  Returned(Undefined))
        /\ \E k \in 1..Len(st.calls) : held' = st.calls[k].failback
        /\ UNCHANGED wrapped

\* the failback a subscriber has kept, invoked after the call that made it
HeldFailback ==
  /\ held # NoFailback
  /\ \E error \in JsValues, data \in JsValues :
       \E st \in {errorSubscriberFailback(Cur, held, error, data)} :
           Commit(st,
                  [Op("errorSubscriberFailback") EXCEPT
                     !.name = held.name, !.error = error, !.data = data],
                  Returned(Undefined))
  /\ UNCHANGED <<wrapped, held>>

WrapWith(targetSet, optionSet) ==
  \E targetFunction \in targetSet, options \in optionSet :
    /\ wrapped' = wrap(Cur, targetFunction, options)
    /\ UNCHANGED held
    /\ \E st \in {Cur} :
         Commit(st, [Op("wrap") EXCEPT !.options = options], Returned(<<"wrappedFunction">>))

Wrap == WrapWith(Targets, OptionValues)

WrapAll == WrapWith({"fails"}, {"optA"})

WrappedFunction ==
  /\ wrapped # NoWrap
  /\ \E receiver \in Receivers, args \in Arguments :
       \E r \in {wrappedFunction(Cur, wrapped, receiver, args)} :
           Commit(r.st,
                  [Op("wrappedFunction") EXCEPT !.receiver = receiver, !.args = args],
                  [kind |-> r.kind, value |-> r.value])
  /\ UNCHANGED <<wrapped, held>>

\* an application that configures the library
Next ==
  \/ EnableLogging
  \/ DisableLogging
  \/ EnableErrorCatching
  \/ DisableErrorCatching
  \/ InitErrorCatchNotifier

Spec == Init /\ [][Next]_vars

\* an application that configures the library and reports errors by hand
NextNotify ==
  \/ EnableLogging
  \/ DisableLogging
  \/ EnableErrorCatching
  \/ DisableErrorCatching
  \/ InitErrorCatchNotifierNotify
  \/ NotifyErrorSubscribers

SpecNotify == Init /\ [][NextNotify]_vars

\* an application that configures the library and calls a wrapped function
NextWrap ==
  \/ EnableLogging
  \/ DisableLogging
  \/ EnableErrorCatching
  \/ DisableErrorCatching
  \/ InitErrorCatchNotifierWrap
  \/ Wrap
  \/ WrappedFunction

SpecWrap == Init /\ [][NextWrap]_vars

\* an application that validates candidate lists by hand
NextBuild ==
  \/ EnableLogging
  \/ DisableLogging
  \/ BuildSubscriberList

SpecBuild == Init /\ [][NextBuild]_vars

\* an application that uses every exported function
NextAll ==
  \/ EnableLogging
  \/ DisableLogging
  \/ EnableErrorCatching
  \/ DisableErrorCatching
  \/ InitErrorCatchNotifierAll
  \/ BuildSubscriberListAll
  \/ NotifyErrorSubscribers
  \/ ErrorSubscriberFailback
  \/ WrapAll
  \/ WrappedFunction

SpecAll == Init /\ [][NextAll]_vars

\* an application whose subscribers report later, through their failback
NextFailback ==
  \/ EnableLogging
  \/ DisableLogging
  \/ EnableErrorCatching
  \/ DisableErrorCatching
  \/ InitErrorCatchNotifierWrap
  \/ NotifyErrorSubscribersKeeping
  \/ HeldFailback

SpecFailback == Init /\ [][NextFailback]_vars

(***************************************************************************)
(* Properties of the wrapper (SpecWrap).                                   *)
(***************************************************************************)
\* the step is a call of the wrapped function
CallStep == lastOp'.op = "wrappedFunction"

\* how the target of the wrapped function ends in the call of this step
TargetEnds == TargetResult(wrapped.target, lastOp'.receiver, lastOp'.args)

\* C1: a call of the wrapped function made while the catching flag is false
\* calls the target once with the receiver and the argument of the call,
\* returns what the target returns or throws what the target throws, and
\* invokes no subscriber.
PassThroughWhenOff ==
  [][(CallStep /\ ~_isEnabled) =>
       /\ outcome' = TargetEnds
       /\ tcalls' = <<[target |-> wrapped.target, receiver |-> lastOp'.receiver,
                       args |-> lastOp'.args]>>
       /\ calls' = <<>>
       /\ caught' = <<>>]_vars

\* a throw of the target has left the wrapped call while subscribers were
\* registered and catching was off
PassThroughWitness ==
  /\ lastOp.op = "wrappedFunction"
  /\ wrapped.target = "fails"
  /\ ~_isEnabled
  /\ Len(_errorSubscribers) > 0
  /\ outcome = Threw(lastOp.args)
  /\ calls = <<>>

\* C2: when the catching flag is true at the call and the target throws E,
\* the wrapped call returns undefined and every subscriber of the list is
\* invoked with E as first argument.
EverySubscriberNotified ==
  [][(CallStep /\ _isEnabled /\ TargetEnds.kind = "throw") =>
       /\ outcome' = Returned(Undefined)
       /\ \A i \in 1..Len(_errorSubscribers) :
            \E k \in 1..Len(calls') :
              /\ calls'[k].sub = _errorSubscribers[i]
              /\ calls'[k].index = i - 1
              /\ calls'[k].error = lastOp'.args]_vars

\* C3: a call of the wrapped function made while the catching flag is true
\* returns: neither the error of the target nor an error of a subscriber
\* leaves it, whatever the logging flag is.
NoThrowWhenCatching ==
  [][(CallStep /\ _isEnabled) => outcome'.kind = "return"]_vars

\* the target threw, a subscriber threw during the notification, and the
\* wrapped call returned undefined
NoThrowWitness ==
  /\ lastOp.op = "wrappedFunction"
  /\ wrapped.target = "fails"
  /\ _isEnabled
  /\ \E k \in 1..Len(caught) : caught[k].catchError = "SubscriberError"
  /\ outcome = Returned(Undefined)

\* C6: every call of a wrapped function whose target throws is intercepted
\* (returns undefined, subscribers notified) when the catching flag is true
\* at that call and passes the throw through (no subscriber notified) when
\* it is false, whatever the flag was when the function was wrapped.
LiveCatchingFlag ==
  [][(CallStep /\ TargetEnds.kind = "throw") =>
       /\ _isEnabled => (outcome' = Returned(Undefined) /\ calls' # <<>>)
       /\ ~_isEnabled => (outcome' = TargetEnds /\ calls' = <<>>)]_vars

\* a function wrapped while catching was off intercepts a throw after
\* catching has been turned on
LiveCatchingFlagWitness ==
  /\ lastOp.op = "wrappedFunction"
  /\ wrapped.target = "fails"
  /\ ~wrapped.wrappedWhen
  /\ _isEnabled
  /\ outcome = Returned(Undefined)
  /\ calls # <<>>

\* C19: a call of the wrapped function made while the catching flag is true
\* and whose target returns calls the target once with the receiver and the
\* argument of the call, returns what the target returns and invokes no
\* subscriber; a call of the wrapped function invokes subscribers only when
\* its target throws.
ReturnPassesThrough ==
  [][/\ (CallStep /\ _isEnabled /\ TargetEnds.kind = "return") =>
          /\ outcome' = TargetEnds
          /\ tcalls' = <<[target |-> wrapped.target, receiver |-> lastOp'.receiver,
                          args |-> lastOp'.args]>>
          /\ calls' = <<>>
          /\ caught' = <<>>
     /\ (CallStep /\ (calls' # <<>> \/ caught' # <<>>)) => TargetEnds.kind = "throw"]_vars

\* the target has returned its receiver and its argument through the wrapped
\* function while catching was on and subscribers were registered
ReturnPassesThroughWitness ==
  /\ lastOp.op = "wrappedFunction"
  /\ wrapped.target = "echo"
  /\ _isEnabled
  /\ Len(_errorSubscribers) > 0
  /\ outcome = Returned(<<lastOp.receiver, lastOp.args>>)
  /\ Len(tcalls) = 1
  /\ calls = <<>>

DecisionAtEntry ==
  [][/\ (CallStep /\ wrapped.target = "disablesThenFails" /\ _isEnabled) =>
          /\ outcome' = Returned(Undefined)
          /\ calls' # <<>>
          /\ \A k \in 1..Len(calls') : calls'[k].error = lastOp'.args
          /\ ~_isEnabled'
     /\ (CallStep /\ wrapped.target = "enablesThenFails" /\ ~_isEnabled) =>
          /\ outcome' = Threw(lastOp'.args)
          /\ calls' = <<>>
          /\ caught' = <<>>
          /\ _isEnabled' = (Len(_errorSubscribers) > 0)]_vars

\* the target has turned catching off and thrown, and its error has been
\* passed to the subscribers all the same and swallowed
DecisionAtEntryWitness ==
  /\ lastOp.op = "wrappedFunction"
  /\ wrapped.target = "disablesThenFails"
  /\ ~_isEnabled
  /\ outcome = Returned(Undefined)
  /\ Len(calls) = Len(_errorSubscribers)
  /\ Len(calls) >= 2
  /\ \A k \in 1..Len(calls) : calls[k].error = lastOp.args

(***************************************************************************)
(* Properties of the notifier (SpecNotify).                                *)
(***************************************************************************)
\* an invocation or a failed call happened at index i in the last operation
Attempted(i) ==
  \/ \E j \in 1..Len(calls) : calls[j].index = i
  \/ \E j \in 1..Len(caught) : caught[j].index = i

NotifyStep == lastOp'.op = "notifyErrorSubscribers"

\* the invocations of the step go up the indexes, and each passes the error,
\* the options and a failback of its own that carries the subscriber's name
InvocationsInOrder ==
  \A k \in 1..Len(calls') :
    /\ calls'[k].error = lastOp'.error
    /\ calls'[k].options = lastOp'.options
    /\ calls'[k].failback.name = Cand[calls'[k].sub].name
    /\ \A j \in 1..(k - 1) :
         /\ calls'[j].index < calls'[k].index
         /\ calls'[j].failback # calls'[k].failback

\* the invocations of the step are those of the list as the call found it
InvocationsOfTheList ==
  /\ \A k \in 1..Len(calls') :
       /\ calls'[k].index < Len(_errorSubscribers)
       /\ calls'[k].sub = _errorSubscribers[calls'[k].index + 1]
  /\ caught' = <<>> => Len(calls') = Len(_errorSubscribers)

\* no subscriber invoked in the step calls initErrorCatchNotifier
NoReinit == \A k \in 1..Len(calls') : Cand[calls'[k].sub].body # "reinit"

ReinitCalls == {k \in 1..Len(calls') : Cand[calls'[k].sub].body = "reinit"}

\* C22: notifyErrorSubscribers reads the list and its length anew at every
\* iteration.  In a call during which a subscriber, invoked at index i, calls
\* initErrorCatchNotifier: up to that invocation the subscribers invoked are
\* those of the list the call found; after it the loop goes on at index i + 1
\* of the new list, invoking the subscribers of the new list from there to
\* its end, whether they were invoked before in this call or not, in place
\* of the subscribers the old list has there; the call ends with the new
\* list.
NotifyReadsTheLiveList ==
  [][(NotifyStep /\ ReinitCalls # {}) =>
       \E f \in {Min(ReinitCalls)} : \E i \in {calls'[f].index} :
         /\ \A k \in 1..f : calls'[k].sub = _errorSubscribers[calls'[k].index + 1]
         /\ Len(calls') = f + (IF i + 1 < Len(ReinitArg.items)
                                 THEN Len(ReinitArg.items) - (i + 1) ELSE 0)
         /\ \A j \in 1..(Len(calls') - f) :
              /\ calls'[f + j].index = i + j
              /\ calls'[f + j].sub = ReinitArg.items[i + j + 1]
         /\ _errorSubscribers' = ReinitArg.items]_vars

\* a subscriber invoked at index 0 has called initErrorCatchNotifier, and
\* the loop has gone on at index 1 of the new list, where it has invoked the
\* same subscriber a second time
NotifyReadsTheLiveListWitness ==
  /\ lastOp.op = "notifyErrorSubscribers"
  /\ Len(calls) = 2
  /\ calls[1].sub = "reiniter" /\ calls[1].index = 0
  /\ calls[2].sub = "reiniter" /\ calls[2].index = 1
  /\ _errorSubscribers = ReinitArg.items
  /\ caught = <<>>

(***************************************************************************)
(* Properties of the configuration (Spec).                                 *)
(***************************************************************************)
\* C7: the catching flag is true only if the subscriber list is not empty.
CatchingNeedsSubscribers == _isEnabled => Len(_errorSubscribers) > 0

\* an initErrorCatchNotifier that aborted on a value that is no array has
\* left catching on, with the subscribers it found
CatchingNeedsSubscribersWitness ==
  /\ lastOp.op = "initErrorCatchNotifier"
  /\ lastOp.arg.kind = "object"
  /\ _isEnabled
  /\ Len(_errorSubscribers) > 0

\* the value is a function whose first declared parameter is named error
ValidSubscriber(c) ==
  /\ Cand[c].callable
  /\ Cand[c].params # <<>>
  /\ Cand[c].params[1] = "error"

\* C8: the subscriber list holds only functions whose first declared
\* parameter is named error.
OnlyValidSubscribers ==
  \A i \in 1..Len(_errorSubscribers) : ValidSubscriber(_errorSubscribers[i])

NoSubscribersWarning ==
  Line("warn", "No valid error subscribers provided. Use init to pass valid error subscribers", "")

\* C9: enableErrorCatching sets the catching flag to whether the subscriber
\* list is not empty, and writes the warning, alone, when the list is empty
\* and logging is enabled; disableErrorCatching sets the flag to false.
CatchingSetters ==
  [][/\ lastOp'.op = "enableErrorCatching" =>
          /\ _isEnabled' = (Len(_errorSubscribers) > 0)
          /\ console' = IF Len(_errorSubscribers) = 0 /\ _isLoggingEnabled
                          THEN <<NoSubscribersWarning>> ELSE <<>>
     /\ lastOp'.op = "disableErrorCatching" => ~_isEnabled']_vars

\* enableErrorCatching has found the list empty while logging was enabled
CatchingSettersWitness ==
  /\ lastOp.op = "enableErrorCatching"
  /\ Len(_errorSubscribers) = 0
  /\ _isLoggingEnabled
  /\ ~_isEnabled
  /\ console = <<NoSubscribersWarning>>

\* the candidates of an array that the validation keeps, in the array's order
ValidatedSubset(items) == SelectSeq(items, errorSubscriberFunctionsFilter)

\* C10: after initErrorCatchNotifier(subs, e, l) on an array (or on nothing,
\* the default array) the logging flag is l, the subscriber list is the
\* validated subset of subs and the catching flag is e and that subset being
\* non-empty.
InitRoundTrip ==
  (lastOp.op = "initErrorCatchNotifier" /\ lastOp.arg.kind # "object") =>
    /\ outcome = Returned(Undefined)
    /\ _isLoggingEnabled = lastOp.loggingEnabled
    /\ _errorSubscribers = ValidatedSubset(lastOp.arg.items)
    /\ _isEnabled = (lastOp.enabled /\ ValidatedSubset(lastOp.arg.items) # <<>>)

\* an initErrorCatchNotifier has kept a part of its array and enabled catching
InitRoundTripWitness ==
  /\ lastOp.op = "initErrorCatchNotifier"
  /\ lastOp.arg.kind = "array"
  /\ lastOp.enabled
  /\ 0 < Len(_errorSubscribers)
  /\ Len(_errorSubscribers) < Len(lastOp.arg.items)
  /\ _isEnabled

NonArrayError == Line("error", "errorSubscriberFunctions must be an array of functions", "")

\* the step is a call initErrorCatchNotifier(v, enabled, true), v being no array
NonArrayInitStep ==
  /\ lastOp'.op = "initErrorCatchNotifier"
  /\ lastOp'.arg.kind = "object"
  /\ lastOp'.loggingEnabled

\* C11: initErrorCatchNotifier(v, enabled, true) on a value v that is no array
\* writes the error "errorSubscriberFunctions must be an array of functions",
\* alone, and returns: the subscriber list and the catching flag are what
\* they were before the call, whatever enabled is, and the logging flag is
\* true.
InitAbortsOnNonArray ==
  [][NonArrayInitStep =>
       /\ console' = <<NonArrayError>>
       /\ outcome' = Returned(Undefined)
       /\ _errorSubscribers' = _errorSubscribers
       /\ _isEnabled' = _isEnabled
       /\ _isLoggingEnabled']_vars

\* initErrorCatchNotifier(v, false, true) on a value that is no array has
\* reported the error and left catching on, with the subscribers it found
InitAbortsOnNonArrayWitness ==
  /\ lastOp.op = "initErrorCatchNotifier"
  /\ lastOp.arg.kind = "object"
  /\ lastOp.loggingEnabled
  /\ ~lastOp.enabled
  /\ console = <<NonArrayError>>
  /\ _isEnabled
  /\ Len(_errorSubscribers) > 0
  /\ _isLoggingEnabled

ConfigurationOperations ==
  {"initErrorCatchNotifier", "enableErrorCatching", "disableErrorCatching",
   "enableLogging", "disableLogging"}

\* C12: no configuration operation throws to its caller, whatever its input
\* and the state it finds; initErrorCatchNotifier on a value that is no array
\* returns when logging is disabled too.
ConfigurationNeverThrows ==
  lastOp.op \in ConfigurationOperations => outcome.kind = "return"

\* what a call initErrorCatchNotifier(arg, enabled, ..) has to report: the
\* error for a value that is no array; for an array the two warnings of each
\* rejected candidate, in the array's order, and then the warning of
\* enableErrorCatching when enabled is true and no candidate is kept
InitDiagnostics(arg, enabled) ==
  IF arg.kind = "object" THEN <<NonArrayError>>
  ELSE WarningsFrom(arg.items, 1, TRUE)
         \o (IF enabled /\ ValidatedSubset(arg.items) = <<>>
               THEN <<NoSubscribersWarning>> ELSE <<>>)

\* C18: initErrorCatchNotifier applies loggingEnabled before it validates and
\* builds: the call writes what it has to report when loggingEnabled is true
\* and nothing when it is false, whatever the logging flag was before.
InitLogsPerArgument ==
  [][lastOp'.op = "initErrorCatchNotifier" =>
       /\ lastOp'.loggingEnabled => console' = InitDiagnostics(lastOp'.arg, lastOp'.enabled)
       /\ ~lastOp'.loggingEnabled => console' = <<>>]_vars

\* initErrorCatchNotifier(subs, true, true) has rejected every candidate of
\* an array of two, one that is no function and one without error parameter,
\* and has written the four warnings and the warning of the empty list
InitLogsPerArgumentWitness ==
  /\ lastOp.op = "initErrorCatchNotifier"
  /\ lastOp.loggingEnabled
  /\ lastOp.enabled
  /\ lastOp.arg.kind = "array"
  /\ Len(lastOp.arg.items) = 2
  /\ \E i, j \in 1..2 : ~isFunction(lastOp.arg.items[i]) /\ isFunction(lastOp.arg.items[j])
  /\ _errorSubscribers = <<>>
  /\ Len(console) = 5
  /\ console[5] = NoSubscribersWarning

Setters == {"enableLogging", "disableLogging", "enableErrorCatching", "disableErrorCatching"}

\* C16: a setter called right after a call of the same setter leaves both
\* flags and the subscriber list as the first call left them.
SettersIdempotent ==
  [][(lastOp.op \in Setters /\ lastOp'.op = lastOp.op) =>
       /\ _isEnabled' = _isEnabled
       /\ _isLoggingEnabled' = _isLoggingEnabled
       /\ _errorSubscribers' = _errorSubscribers]_vars

\* enableErrorCatching has turned catching on, and a second call of it
\* leaves the flags and the list of two subscribers as they are
SettersIdempotentWitness ==
  /\ lastOp.op = "enableErrorCatching"
  /\ _isEnabled
  /\ _isLoggingEnabled
  /\ Len(_errorSubscribers) = 2
  /\ \E st \in {enableErrorCatching(Cur)} :
       <<st.en, st.log, st.subs>> = <<_isEnabled, _isLoggingEnabled, _errorSubscribers>>

(***************************************************************************)
(* Properties of the library as a whole (SpecAll).                         *)
(***************************************************************************)
\* the configuration: the two flags and the subscriber list
Configuration == <<_isEnabled, _isLoggingEnabled, _errorSubscribers>>

\* the setters of the step keep what is not theirs: the logging setters the
\* catching flag and the list, the catching setters the logging flag and the
\* list; wrap, buildSubscriberList and a failback keep all three
SettersKeepTheRest ==
  /\ lastOp'.op \in {"enableLogging", "disableLogging"} =>
       UNCHANGED <<_isEnabled, _errorSubscribers>>
  /\ lastOp'.op \in {"enableErrorCatching", "disableErrorCatching"} =>
       UNCHANGED <<_isLoggingEnabled, _errorSubscribers>>
  /\ lastOp'.op \in {"wrap", "buildSubscriberList", "errorSubscriberFailback"} =>
       UNCHANGED Configuration

\* some subscriber invoked in the step calls initErrorCatchNotifier
SubscriberReinits == \E k \in 1..Len(calls') : Cand[calls'[k].sub].body = "reinit"

\* a step that changes the subscriber list is a call of initErrorCatchNotifier,
\* made by the application or by a subscriber
OnlyInitChangesTheList ==
  _errorSubscribers' # _errorSubscribers =>
    (lastOp'.op = "initErrorCatchNotifier" \/ SubscriberReinits)

BuildKeepsTheValid ==
  (lastOp.op = "buildSubscriberList" /\ lastOp.arg.kind # "object") =>
    outcome = Returned(SelectSeq(lastOp.arg.items, ValidSubscriber))

(***************************************************************************)
(* Properties of the failback and of the console (SpecAll).                *)
(***************************************************************************)
\* the two lines a failback writes for a failure, and for a success
FailurePair(name, error) ==
  <<Line("error", "Error subscriber <name> failed with error", name),
    Line("error", "<error>", error)>>

SuccessPair(name, data) ==
  <<Line("log", "Error subscriber <name> succeeded with", name),
    Line("log", "<data>", data)>>

\* C15: a failback made for a name and invoked with (error, data) while
\* logging is enabled writes the failure line with the name and then the
\* error exactly when an error is given, and the success line with the name
\* and then the data exactly when data is given, the failure pair first;
\* invoked while logging is disabled it writes nothing.
FailbackReportsWhatIsGiven ==
  lastOp.op = "errorSubscriberFailback" =>
    console = IF ~_isLoggingEnabled THEN <<>>
              ELSE (IF JsValue[lastOp.error].given
                      THEN FailurePair(lastOp.name, lastOp.error) ELSE <<>>)
                   \o (IF JsValue[lastOp.data].given
                         THEN SuccessPair(lastOp.name, lastOp.data) ELSE <<>>)

\* the exceptions of subscribers caught in the step while logging was enabled
LoggedCatches == {k \in 1..Len(caught') : caught'[k].logged}

\* C17: nothing is written to the console while the logging flag is false:
\* a call of buildSubscriberList, enableErrorCatching, notifyErrorSubscribers
\* or a failback made while the flag is false writes nothing, whether a
\* candidate is rejected, the list is empty or a subscriber throws; a call of
\* initErrorCatchNotifier that sets the flag to false writes nothing; and
\* notifyErrorSubscribers writes its two lines for those exceptions only that
\* it catches while the flag is true.
SilentWhileLoggingOff ==
  [][/\ (/\ lastOp'.op \in {"buildSubscriberList", "enableErrorCatching",
                            "notifyErrorSubscribers", "errorSubscriberFailback"}
         /\ ~_isLoggingEnabled) => console' = <<>>
     /\ (lastOp'.op = "initErrorCatchNotifier" /\ ~lastOp'.loggingEnabled) => console' = <<>>
     /\ lastOp'.op = "notifyErrorSubscribers" =>
          Len(console') = 2 * Cardinality(LoggedCatches)]_vars

\* a subscriber has thrown in a call of notifyErrorSubscribers made while
\* logging was disabled, and nothing was written
SilentWhileLoggingOffWitness ==
  /\ lastOp.op = "notifyErrorSubscribers"
  /\ ~_isLoggingEnabled
  /\ \E k \in 1..Len(caught) : caught[k].catchError = "SubscriberError" /\ ~caught[k].logged
  /\ \A k \in 1..Len(calls) : Cand[calls[k].sub].body # "reinit"
  /\ console = <<>>

(***************************************************************************)
(* Properties of a failback invoked later (SpecFailback).                  *)
(***************************************************************************)
\* the step invokes the failback a subscriber has kept
HeldFailbackStep == lastOp'.op = "errorSubscriberFailback" /\ held # NoFailback

\* C23: a failback decides on the logging flag as it is when the failback is
\* invoked, whatever the flag was when the failback was made: invoked while
\* the flag is true it writes its lines for the error and the data it
\* reports, invoked while the flag is false it writes nothing; and invoking
\* it changes neither flag nor the subscriber list.
FailbackReadsTheLiveFlag ==
  [][HeldFailbackStep =>
       /\ ~_isLoggingEnabled => console' = <<>>
       /\ _isLoggingEnabled =>
            console' = (IF JsValue[lastOp'.error].truthy
                          THEN FailurePair(held.name, lastOp'.error) ELSE <<>>)
                       \o (IF JsValue[lastOp'.data].truthy
                             THEN SuccessPair(held.name, lastOp'.data) ELSE <<>>)
       /\ UNCHANGED Configuration]_vars

\* a failback made in a call of notifyErrorSubscribers while logging was
\* disabled has been invoked with an error after logging was enabled, and
\* has written its two lines
FailbackReadsTheLiveFlagWitness ==
  /\ lastOp.op = "errorSubscriberFailback"
  /\ held # NoFailback
  /\ ~held.madeWhen
  /\ _isLoggingEnabled
  /\ lastOp.error = "text"
  /\ lastOp.data = "none"
  /\ console = FailurePair(held.name, "text")

====
